---- MODULE Spec2Model ----
(***************************************************************************)
(* winproc: processes, threads and modules behind owned OS handles.        *)
(*                                                                         *)
(* Five specifications over one set of variables:                          *)
(*   Spec          the snapshot sequences (Process::all, threads,          *)
(*                 thread_ids, module_entries) and Process::from_name      *)
(*   SpecAffinity  Thread / Process affinity masks                         *)
(*   SpecEntry     ModuleEntry::from(MODULEENTRY32W)                       *)
(*   SpecModList   Process::module_list                                    *)
(*   SpecAccess    the constructors and accessors of Process and Thread    *)
(* The OS calls are modelled by operators named after the call.            *)
(***************************************************************************)
EXTENDS Integers, Sequences, FiniteSets, TLC

\* ---- bounds of the model ------------------------------------------------
MaxProcs == 3      \* entries of a process-table snapshot
MaxThreads == 3    \* entries of a thread-table snapshot
MaxPid == 2        \* process ids 1..MaxPid own threads and modules (0: idle)
MaxMods == 2       \* modules loaded in one process
MaxLoaded == 4     \* modules module_list can find loaded

\* ---- values --------------------------------------------------------------
CurrentPid == 1    \* the id of the calling process
Pids == 1..MaxPid
Names == {"a.exe", "A.exe"}
\* An image path as its components; Path::file_name is None for a path that
\* ends in "..".
Paths == {<<"dir", "a.exe">>, <<"dir", "A.exe">>, <<"dir", "..">>}
Images == Paths \cup {<<>>}      \* <<>>: QueryFullProcessImageNameW fails
NoEntry == [id |-> 0, owner |-> 0]
NoProcess == [pid |-> 0, idOk |-> FALSE]

VARIABLES
    kind,       \* which sequence was created: "none", "process", "threads",
                \* "thread_ids", "module_entries"
    recv,       \* the Process the sequence was taken from (&self)
    snap,       \* the entries recorded in the snapshot, in snapshot order
    cursor,     \* OS side: how many entries of the snapshot were passed
    openable,   \* ids (process or thread) whose open succeeds right now
    image,      \* pid -> what QueryFullProcessImageNameW gives for it
    nmods,      \* pid -> number of modules loaded in that process
    seq,        \* the returned sequence: "none", "failed", "live", "dropped"
    hstate,     \* the snapshot Handle: "none", "open", "closed"
    closes,     \* releases of the snapshot handle so far
    yielded,    \* the items the sequence has returned so far
    log,        \* every per-entry open attempted: <<[id, ok]>>
    ended,      \* the last advance returned None
    calls,      \* OS calls made by the last advance
    fn,         \* from_name: its argument and result
    \* -- affinity
    sysmask,    \* the system affinity mask: the processors of the host
    pmask,      \* the affinity mask of the process
    tmask,      \* the affinity mask of the thread
    pc,         \* Thread::affinity_mask: "idle", or "restore" between its calls
    saved,      \* ... the value its first OS call returned
    cur,        \* the Thread operation running or last run
    pop,        \* the Process operation last run, and the one before it
    \* -- ModuleEntry::from
    raw,        \* the MODULEENTRY32W record
    entry,      \* the ModuleEntry made from it
    \* -- module_list
    loaded,     \* modules loaded in the process right now
    mod_handles, \* the Vec<HMODULE>
    reserved,   \* bytes
    needed,     \* bytes, as EnumProcessModulesEx last reported
    mlpc,       \* "idle", "loop", "done"
    mlret,      \* what module_list returned
    mlcall,     \* the last EnumProcessModulesEx call and the resize after it
    \* -- accessors
    proc,       \* the Process the caller holds
    thr,        \* the Thread the caller holds
    res         \* the operation last called on them, its inputs and result

enumVars == <<kind, recv, snap, cursor, openable, image, nmods, seq, hstate,
              closes, yielded, log, ended, calls, fn>>

affVars == <<sysmask, pmask, tmask, pc, saved, cur, pop>>
entVars == <<raw, entry>>
mlVars == <<loaded, mod_handles, reserved, needed, mlpc, mlret, mlcall>>

accVars == <<proc, thr, res>>

vars == <<enumVars, affVars, entVars, mlVars, accVars>>
notEnum == <<affVars, entVars, mlVars, accVars>>
notAff == <<enumVars, entVars, mlVars, accVars>>
notEnt == <<enumVars, affVars, mlVars, accVars>>
notMl == <<enumVars, affVars, entVars, accVars>>
notAcc == <<enumVars, affVars, entVars, mlVars>>

\* ---- the OS ----------------------------------------------------------------
\* Process32Next / Thread32Next / Module32NextW: copy the entry after the
\* cursor and advance, or return 0 at the end of the snapshot.
Toolhelp32Next(s, c) ==
    IF c < Len(s)
    THEN [ret |-> 1, entry |-> s[c + 1], cursor |-> c + 1]
    ELSE [ret |-> 0, entry |-> NoEntry, cursor |-> c]

\* No code under src/ calls Process32First, Thread32First or Module32FirstW,
\* which put the cursor back on the first entry: a snapshot is walked with
\* Next calls alone, from the cursor it is created with. That cursor is
\* before the first entry (0), so the first Next call retrieves the first
\* entry.
UnpositionedCursor == {0}

\* OpenProcess / OpenThread: a handle, or null.
OpenProcess(id, can) == id \in can
OpenThread(id, can) == id \in can

\* GetProcessId: the id, or 0 when the query fails.
GetProcessId(p) == IF p.idOk THEN p.pid ELSE 0

\* What a snapshot taken now records.
ProcessTables ==
    { [i \in 1..n |-> [id |-> i, owner |-> 0]] : n \in 1..MaxProcs }
ThreadTables ==
    UNION { { [i \in 1..n |-> [id |-> i, owner |-> o[i]]] :
                o \in [1..n -> 0..MaxPid] } : n \in 1..MaxThreads }
ModuleTable(pid, count) ==
    [i \in 1..count[pid] |-> [id |-> i, owner |-> pid]]

\* CreateToolhelp32Snapshot(TH32CS_SNAPMODULE | TH32CS_SNAPMODULE32, pid):
\* the modules of process pid, of the calling process when pid is 0.
ModuleSnapshot(pid, count) ==
    ModuleTable(IF pid = 0 THEN CurrentPid ELSE pid, count)

\* ---- Process ---------------------------------------------------------------
Process_id(p) == GetProcessId(p)

Process_from_id_with_access(id, can) ==
    [ok |-> OpenProcess(id, can), id |-> id]

Thread_from_id(id, can) ==
    [ok |-> OpenThread(id, can), id |-> id]

\* path(): Err when the query fails, the path otherwise.
Process_path(img) ==
    IF img = <<>> THEN [ok |-> FALSE, path |-> <<>>]
    ELSE [ok |-> TRUE, path |-> img]

\* Path::file_name
FileName(path) ==
    IF Len(path) = 0 \/ path[Len(path)] = ".."
    THEN [some |-> FALSE, name |-> ""]
    ELSE [some |-> TRUE, name |-> path[Len(path)]]

\* name(): path()? then file_name().unwrap()
Process_name(img) ==
    LET p == Process_path(img) IN
    IF ~p.ok THEN [kind |-> "Err", name |-> ""]
    ELSE LET f == FileName(p.path) IN
         IF ~f.some THEN [kind |-> "Panic", name |-> ""]
         ELSE [kind |-> "Ok", name |-> f.name]

\* ---- the iterators ----------------------------------------------------------
\* An advance gives [some, ok, entry, cursor, calls, log]: None or Some(item),
\* the cursor it leaves, the OS calls it made, the opens it attempted.
IterNone(c, n) ==
    [some |-> FALSE, ok |-> FALSE, entry |-> NoEntry, cursor |-> c,
     calls |-> n, log |-> <<>>]

ProcessIter_next(s, c, can) ==
    LET r == Toolhelp32Next(s, c) IN
    IF r.ret = 0 THEN IterNone(r.cursor, 1)
    ELSE LET p == Process_from_id_with_access(r.entry.id, can) IN
         [some |-> TRUE, ok |-> p.ok, entry |-> r.entry, cursor |-> r.cursor,
          calls |-> 2, log |-> <<[id |-> p.id, ok |-> p.ok]>>]

\* A next() without the owner test: the thread of any entry is opened.
ThreadIter_nextAnyOwner(s, c, can, p, n) ==
    LET r == Toolhelp32Next(s, c) IN
    IF r.ret = 0 THEN IterNone(r.cursor, n + 1)
    ELSE LET t == Thread_from_id(r.entry.id, can) IN
         [some |-> TRUE, ok |-> t.ok, entry |-> r.entry, cursor |-> r.cursor,
          calls |-> n + 2, log |-> <<[id |-> t.id, ok |-> t.ok]>>]

RECURSIVE ThreadIter_next(_, _, _, _, _)
ThreadIter_next(s, c, can, p, n) ==
    LET r == Toolhelp32Next(s, c) IN
    IF r.ret = 0 THEN IterNone(r.cursor, n + 1)
    ELSE IF r.entry.owner = Process_id(p)
         THEN LET t == Thread_from_id(r.entry.id, can) IN
              [some |-> TRUE, ok |-> t.ok, entry |-> r.entry,
               cursor |-> r.cursor, calls |-> n + 3,
               log |-> <<[id |-> t.id, ok |-> t.ok]>>]
         ELSE ThreadIter_next(s, r.cursor, can, p, n + 2)

\* A next() without the owner test: the id of any entry is returned.
ThreadIdIter_nextAnyOwner(s, c, p, n) ==
    LET r == Toolhelp32Next(s, c) IN
    IF r.ret = 0 THEN IterNone(r.cursor, n + 1)
    ELSE [some |-> TRUE, ok |-> TRUE, entry |-> r.entry, cursor |-> r.cursor,
          calls |-> n + 1, log |-> <<>>]

RECURSIVE ThreadIdIter_next(_, _, _, _)
ThreadIdIter_next(s, c, p, n) ==
    LET r == Toolhelp32Next(s, c) IN
    IF r.ret = 0 THEN IterNone(r.cursor, n + 1)
    ELSE IF r.entry.owner = Process_id(p)
         THEN [some |-> TRUE, ok |-> TRUE, entry |-> r.entry,
               cursor |-> r.cursor, calls |-> n + 2, log |-> <<>>]
         ELSE ThreadIdIter_next(s, r.cursor, p, n + 2)

ModuleEntryIter_next(s, c) ==
    LET r == Toolhelp32Next(s, c) IN
    IF r.ret = 0 THEN IterNone(r.cursor, 1)
    ELSE [some |-> TRUE, ok |-> TRUE, entry |-> r.entry, cursor |-> r.cursor,
          calls |-> 1, log |-> <<>>]

InnerNext(k, s, c, can, p) ==
    CASE k = "process" -> ProcessIter_next(s, c, can)
      [] k = "threads" -> ThreadIter_next(s, c, can, p, 0)
      [] k = "thread_ids" -> ThreadIdIter_next(s, c, p, 0)
      [] OTHER -> ModuleEntryIter_next(s, c)

\* An adapter that ends at the first Some(Err) (what
\* .take_while(Result::is_ok) would do).
FilterMapStopsAtErr(k, s, c, can, p) ==
    LET r == InnerNext(k, s, c, can, p) IN
    IF ~r.some \/ r.ok THEN r
    ELSE [IterNone(r.cursor, r.calls) EXCEPT !.log = r.log]

\* .filter_map(Result::ok): advance the inner iterator until it gives Some(Ok)
\* or None; a Some(Err) is passed over.
RECURSIVE FilterMapNext(_, _, _, _, _)
FilterMapNext(k, s, c, can, p) ==
    LET r == InnerNext(k, s, c, can, p) IN
    IF ~r.some \/ r.ok THEN r
    ELSE LET q == FilterMapNext(k, s, r.cursor, can, p) IN
         [q EXCEPT !.calls = @ + r.calls, !.log = r.log \o @]

\* A sequence without the filter_map adapter: Some(Err) reaches the caller.
SeqAdvanceUnfiltered(k, s, c, can, p) == InnerNext(k, s, c, can, p)

\* next() of the sequence the constructor returned: Process::all and threads
\* wrap their iterator in filter_map, thread_ids and module_entries do not.
SeqAdvance(k, s, c, can, p) ==
    IF k \in {"process", "threads"} THEN FilterMapNext(k, s, c, can, p)
    ELSE InnerNext(k, s, c, can, p)

\* The predicate with unwrap_or(true): a name that cannot be read matches.
NameIsErrCountsAsMatch(img, name) ==
    LET n == Process_name(img) IN
    IF n.kind = "Panic" THEN "Panic"
    ELSE IF n.kind = "Err" \/ n.name = name THEN "Match" ELSE "NoMatch"

\* The predicate from_name hands to find:
\* |p| p.name().map(|n| n == name).unwrap_or(false)
NameIs(img, name) ==
    LET n == Process_name(img) IN
    IF n.kind = "Panic" THEN "Panic"
    ELSE IF n.kind = "Ok" /\ n.name = name THEN "Match" ELSE "NoMatch"

\* Process::all() run to its end: every process it yields, in order.
RECURSIVE CollectAll(_, _, _)
CollectAll(s, c, can) ==
    LET r == FilterMapNext("process", s, c, can, NoProcess) IN
    IF ~r.some THEN [ids |-> <<>>, log |-> r.log, cursor |-> r.cursor]
    ELSE LET q == CollectAll(s, r.cursor, can) IN
         [ids |-> <<r.entry.id>> \o q.ids, log |-> r.log \o q.log,
          cursor |-> q.cursor]

\* A find over the collected sequence (what .collect::<Vec<_>>().into_iter()
\* before .find would do): every entry is opened before the first is looked
\* at.
FindEager(s, c, can, img, name) ==
    LET a == CollectAll(s, c, can)
        hit == { i \in 1..Len(a.ids) : NameIs(img[a.ids[i]], name) # "NoMatch" }
    IN IF hit = {}
       THEN [kind |-> "NoProcess", pid |-> 0, cursor |-> a.cursor,
             log |-> a.log, dropped |-> a.ids]
       ELSE LET first == CHOOSE i \in hit : \A j \in hit : i <= j
                T(id) == id # a.ids[first]
            IN IF NameIs(img[a.ids[first]], name) = "Panic"
               THEN [kind |-> "Panic", pid |-> 0, cursor |-> a.cursor,
                     log |-> a.log, dropped |-> a.ids]
               ELSE [kind |-> "Ok", pid |-> a.ids[first], cursor |-> a.cursor,
                     log |-> a.log, dropped |-> SelectSeq(a.ids, T)]

\* Iterator::find over Process::all() with that predicate. It gives the kind of
\* outcome, the process found, the cursor left, the opens attempted and the
\* processes that were yielded and dropped again.
RECURSIVE Find(_, _, _, _, _)
Find(s, c, can, img, name) ==
    LET r == FilterMapNext("process", s, c, can, NoProcess) IN
    IF ~r.some
    THEN [kind |-> "NoProcess", pid |-> 0, cursor |-> r.cursor, log |-> r.log,
          dropped |-> <<>>]
    ELSE LET m == NameIs(img[r.entry.id], name) IN
         IF m = "Panic"
         THEN [kind |-> "Panic", pid |-> 0, cursor |-> r.cursor,
               log |-> r.log, dropped |-> <<r.entry.id>>]
         ELSE IF m = "Match"
         THEN [kind |-> "Ok", pid |-> r.entry.id, cursor |-> r.cursor,
               log |-> r.log, dropped |-> <<>>]
         ELSE LET q == Find(s, r.cursor, can, img, name) IN
              [q EXCEPT !.log = r.log \o @,
                        !.dropped = <<r.entry.id>> \o @]

\* ---- Handle ------------------------------------------------------------------
\* Drop for Handle: CloseHandle on the raw handle, once.
Handle_drop(h, n) == [state |-> "closed", closes |-> n + 1]

\* ---- affinity masks: values ---------------------------------------------------
\* A mask is the set of its bit indices; 0 is the empty set.
WordBits == 64     \* bits of usize / DWORD_PTR on a 64-bit host
DwordBits == 32    \* bits of u32 / DWORD
AllBits == 0..(WordBits - 1)           \* DWORD_PTR::max_value()
Blocks == {{0}, 1..(DwordBits - 1), {DwordBits}, (DwordBits + 1)..(WordBits - 1)}
MaskFamily == { UNION bs : bs \in SUBSET Blocks }
\* Hosts with 32, 33 and 64 logical processors.
SystemMasks == { 0..(n - 1) : n \in {DwordBits, DwordBits + 1, WordBits} }
ProcessorArgs == {0, DwordBits, WordBits - 1, WordBits, 255}

NoOp == [op |-> "none", arg |-> {}, before |-> {}, ok |-> FALSE, ret |-> {},
         done |-> TRUE, interfered |-> FALSE]
NoPop == [set |-> FALSE, arg |-> {}, ok |-> FALSE, before |-> {}]

AffIdle ==
    /\ sysmask = {}
    /\ pmask = {}
    /\ tmask = {}
    /\ pc = "idle"
    /\ saved = {}
    /\ cur = NoOp
    /\ pop = NoPop

\* ---- ModuleEntry::from, module_list: values --------------------------------------
EntIdle ==
    /\ raw = <<>>
    /\ entry = <<>>

MlIdle ==
    /\ loaded = 0
    /\ mod_handles = <<>>
    /\ reserved = 0
    /\ needed = 0
    /\ mlpc = "idle"
    /\ mlret = <<>>
    /\ mlcall = <<>>

\* ---- accessors: values ------------------------------------------------------------
Null == 0                  \* a null HANDLE / HMODULE
InvalidHandleValue == -1   \* INVALID_HANDLE_VALUE: (HANDLE)-1
NoHeld == [live |-> FALSE, origin |-> "none", pid |-> 0, raw |-> Null,
           idOk |-> FALSE]
NoRes == [op |-> "none", osfail |-> FALSE, kind |-> "none", value |-> <<>>,
          arg |-> <<>>]

AccIdle ==
    /\ proc = NoHeld
    /\ thr = NoHeld
    /\ res = NoRes

\* ---- Init ----------------------------------------------------------------------
NoFn == [name |-> "", kind |-> "none", pid |-> 0, start |-> 0, dropped |-> <<>>,
         handles |-> <<>>]

EnumIdle ==
    /\ kind = "none"
    /\ recv = NoProcess
    /\ snap = <<>>
    /\ cursor = 0
    /\ openable = {}
    /\ image = <<>>
    /\ nmods = [i \in Pids |-> 1]
    /\ seq = "none"
    /\ hstate = "none"
    /\ closes = 0
    /\ yielded = <<>>
    /\ log = <<>>
    /\ ended = FALSE
    /\ calls = 0
    /\ fn = NoFn

Init == EnumIdle /\ AffIdle /\ EntIdle /\ MlIdle /\ AccIdle

\* ---- the constructors of the sequences ---------------------------------------
\* What a constructor leaves when CreateToolhelp32Snapshot gives
\* INVALID_HANDLE_VALUE: Err(last_os_error), nothing opened.
SnapshotFailed(k, p) ==
    /\ kind' = k
    /\ recv' = p
    /\ seq' = "failed"
    /\ UNCHANGED <<snap, cursor, openable, image, nmods, hstate, closes,
                   yielded, log, ended, calls, fn>>
    /\ UNCHANGED notEnum

\* What it leaves otherwise: the iterator, owning Handle::new(snap).
SnapshotTaken(k, p, s, can) ==
    /\ kind' = k
    /\ recv' = p
    /\ snap' = s
    /\ cursor' \in UnpositionedCursor
    /\ openable' = can
    /\ seq' = "live"
    /\ hstate' = "open"
    /\ UNCHANGED <<image, closes, yielded, log, ended, calls, fn>>
    /\ UNCHANGED notEnum

Receivers == [pid : Pids, idOk : BOOLEAN]

\* Process::all() / Process::all_with_access(access)
Process_all ==
    /\ seq = "none"
    /\ \/ SnapshotFailed("process", NoProcess)
       \/ \E s \in ProcessTables : \E can \in SUBSET (1..Len(s)) :
            SnapshotTaken("process", NoProcess, s, can) /\ UNCHANGED nmods

\* p.threads()
Process_threads ==
    /\ seq = "none"
    /\ \E p \in Receivers :
        \/ SnapshotFailed("threads", p)
        \/ \E s \in ThreadTables : \E can \in SUBSET (1..Len(s)) :
             SnapshotTaken("threads", p, s, can) /\ UNCHANGED nmods

\* p.thread_ids()
Process_thread_ids ==
    /\ seq = "none"
    /\ \E p \in Receivers :
        \/ SnapshotFailed("thread_ids", p)
        \/ \E s \in ThreadTables :
             SnapshotTaken("thread_ids", p, s, {}) /\ UNCHANGED nmods

\* p.module_entries(): the snapshot is asked for with th32ProcessID 0.
Process_module_entries ==
    /\ seq = "none"
    /\ \E p \in Receivers :
        \/ SnapshotFailed("module_entries", p)
        \/ \E count \in [Pids -> 0..MaxMods] :
             /\ count[CurrentPid] >= 1
             /\ nmods' = count
             /\ SnapshotTaken("module_entries", p, ModuleSnapshot(0, count), {})

\* The handles of the processes a find opened, by entry id: the Process that
\* find passed over was dropped and its Handle with it; the one it returned
\* is still open; an entry never opened has none.
ProcessHandles(s, r) ==
    [id \in 1..Len(s) |->
        IF \E i \in 1..Len(r.dropped) : r.dropped[i] = id
        THEN Handle_drop("open", 0)
        ELSE IF r.kind = "Ok" /\ r.pid = id
        THEN [state |-> "open", closes |-> 0]
        ELSE [state |-> "none", closes |-> 0]]

\* Process::from_name(name) / from_name_with_access(name, access), from the
\* call to its return: the snapshot is taken, find runs, and the sequence, a
\* temporary of the call, is dropped.
Process_from_name ==
    /\ seq = "none"
    /\ UNCHANGED notEnum
    /\ \E name \in Names :
        \/ /\ fn' = [NoFn EXCEPT !.name = name, !.kind = "OsError"]
           /\ kind' = "process"
           /\ seq' = "failed"
           /\ UNCHANGED <<recv, snap, cursor, openable, image, nmods, hstate,
                          closes, yielded, log, ended, calls>>
        \/ \E s \in ProcessTables, c0 \in UnpositionedCursor :
           \E can \in SUBSET (1..Len(s)), img \in [1..Len(s) -> Images] :
             LET r == Find(s, c0, can, img, name)
                 h == Handle_drop("open", closes)
             IN /\ fn' = [name |-> name, kind |-> r.kind, pid |-> r.pid,
                          start |-> c0, dropped |-> r.dropped,
                          handles |-> ProcessHandles(s, r)]
                /\ kind' = "process"
                /\ snap' = s
                /\ openable' = can
                /\ image' = img
                /\ cursor' = r.cursor
                /\ log' = r.log
                /\ yielded' = [i \in 1..Len(r.dropped) |->
                                 [id |-> r.dropped[i], owner |-> 0]]
                              \o (IF r.kind = "Ok"
                                  THEN <<[id |-> r.pid, owner |-> 0]>>
                                  ELSE <<>>)
                /\ ended' = (r.kind = "NoProcess")
                /\ seq' = "dropped"
                /\ hstate' = h.state
                /\ closes' = h.closes
                /\ UNCHANGED <<recv, nmods, calls>>

\* ---- the caller's use of a sequence ---------------------------------------------
\* One call of next() on the returned sequence.
SeqNext ==
    /\ seq = "live"
    /\ LET r == SeqAdvance(kind, snap, cursor, openable, recv) IN
        /\ cursor' = r.cursor
        /\ log' = log \o r.log
        /\ yielded' = IF r.some THEN Append(yielded, r.entry) ELSE yielded
        /\ ended' = ~r.some
        /\ calls' = r.calls
    /\ UNCHANGED <<kind, recv, snap, openable, image, nmods, seq, hstate,
                   closes, fn>>
    /\ UNCHANGED notEnum

\* A drop that forgets the snapshot (what mem::forget of the field would do).
DropSeqKeepsSnapshot ==
    /\ seq = "live"
    /\ seq' = "dropped"
    /\ UNCHANGED <<kind, recv, snap, cursor, openable, image, nmods, hstate,
                   closes, yielded, log, ended, calls, fn>>
    /\ UNCHANGED notEnum

\* The sequence goes out of scope: its fields are dropped, the snapshot
\* Handle among them.
DropSeq ==
    /\ seq = "live"
    /\ seq' = "dropped"
    /\ LET h == Handle_drop(hstate, closes) IN
        /\ hstate' = h.state
        /\ closes' = h.closes
    /\ UNCHANGED <<kind, recv, snap, cursor, openable, image, nmods, yielded,
                   log, ended, calls, fn>>
    /\ UNCHANGED notEnum

\* A process or thread of the snapshot exits while the sequence is in use:
\* opening it fails from now on.
EntityExits ==
    /\ seq = "live"
    /\ \E id \in openable : openable' = openable \ {id}
    /\ UNCHANGED <<kind, recv, snap, cursor, image, nmods, seq, hstate, closes,
                   yielded, log, ended, calls, fn>>
    /\ UNCHANGED notEnum

Next ==
    \/ Process_all
    \/ Process_threads
    \/ Process_thread_ids
    \/ Process_module_entries
    \/ Process_from_name
    \/ SeqNext
    \/ DropSeq
    \/ EntityExits

Spec == Init /\ [][Next]_vars

\* ==== affinity =====================================================================
\* ---- the OS -------------------------------------------------------------------
\* SetThreadAffinityMask: the previous mask, or 0 when the call fails: for a
\* mask of 0, for a mask with a processor the process mask does not have, or
\* for a reason of the handle's (fails).
SetThreadAffinityMask(mask, tm, pm, fails) ==
    IF fails \/ mask = {} \/ ~(mask \subseteq pm)
    THEN [ret |-> {}, tmask |-> tm]
    ELSE [ret |-> tm, tmask |-> mask]

\* What a new process mask makes of a thread mask.
ThreadMaskUnder(tm, pm) == IF tm \cap pm = {} THEN pm ELSE tm \cap pm

\* SetProcessAffinityMask: nonzero, or 0 when the call fails: for a mask of 0
\* or one with a processor the system does not have.
SetProcessAffinityMask(mask, pm, sys, fails) ==
    IF fails \/ mask = {} \/ ~(mask \subseteq sys)
    THEN [ret |-> 0, pmask |-> pm]
    ELSE [ret |-> 1, pmask |-> mask]

\* GetProcessAffinityMask
GetProcessAffinityMask(pm, sys, fails) ==
    IF fails THEN [ret |-> 0, process_mask |-> {}, system_mask |-> {}]
    ELSE [ret |-> 1, process_mask |-> pm, system_mask |-> sys]

\* ---- Init ---------------------------------------------------------------------
InitAffinity ==
    /\ EnumIdle /\ EntIdle /\ MlIdle /\ AccIdle
    /\ sysmask \in SystemMasks
    /\ pmask \in { m \in MaskFamily : m # {} /\ m \subseteq sysmask }
    /\ tmask \in { m \in MaskFamily : m # {} /\ m \subseteq pmask }
    /\ pc = "idle"
    /\ saved = {}
    /\ cur = NoOp
    /\ pop = NoPop

\* ---- Thread -------------------------------------------------------------------
\* The first half of Thread::affinity_mask(), called as op: the mask is set to
\* all bits; Err when that fails, else on to the second call with what the
\* first returned.
AffinityMaskFirst(op, arg) ==
    \E fails \in BOOLEAN :
      LET r == SetThreadAffinityMask(AllBits, tmask, pmask, fails)
          c == [op |-> op, arg |-> arg, before |-> tmask, ok |-> FALSE,
                ret |-> {}, done |-> FALSE, interfered |-> FALSE]
      IN /\ tmask' = r.tmask
         /\ IF r.ret = {}
            THEN /\ cur' = [c EXCEPT !.done = TRUE]
                 /\ UNCHANGED <<pc, saved>>
            ELSE /\ cur' = c
                 /\ pc' = "restore"
                 /\ saved' = r.ret
         /\ pop' = NoPop
         /\ UNCHANGED <<sysmask, pmask>>
         /\ UNCHANGED notAff

\* The second half: the mask is set to what the first call returned; the
\* result is Err when that fails, else Ok of what this call returned.
AffinityMaskSecond ==
    /\ pc = "restore"
    /\ \E fails \in BOOLEAN :
        LET r == SetThreadAffinityMask(saved, tmask, pmask, fails) IN
        /\ tmask' = r.tmask
        /\ cur' = [cur EXCEPT !.done = TRUE, !.ok = (r.ret # {}),
                              !.ret = r.ret]
    /\ pc' = "idle"
    /\ saved' = {}
    /\ UNCHANGED <<sysmask, pmask, pop>>
    /\ UNCHANGED notAff

\* Thread::set_affinity_mask(mask), called as op.
SetAffinityMask(op, arg, mask) ==
    \E fails \in BOOLEAN :
      LET r == SetThreadAffinityMask(mask, tmask, pmask, fails) IN
      /\ tmask' = r.tmask
      /\ cur' = [op |-> op, arg |-> arg, before |-> tmask, ok |-> (r.ret # {}),
                 ret |-> r.ret, done |-> TRUE, interfered |-> FALSE]
      /\ pop' = NoPop
      /\ UNCHANGED <<sysmask, pmask, pc, saved>>
      /\ UNCHANGED notAff

Thread_affinity_mask ==
    /\ pc = "idle"
    /\ AffinityMaskFirst("affinity_mask", {})

Thread_set_affinity_mask ==
    /\ pc = "idle"
    /\ \E mask \in MaskFamily : SetAffinityMask("set_affinity_mask", mask, mask)

\* Thread::set_affinity(processor)
Thread_set_affinity ==
    /\ pc = "idle"
    /\ \E processor \in ProcessorArgs :
        IF processor >= WordBits
        THEN AffinityMaskFirst("set_affinity", {processor})
        ELSE SetAffinityMask("set_affinity", {processor}, {processor})

\* ---- Process ------------------------------------------------------------------
\* The value a u32 parameter holds of a machine-word mask.
AsU32(mask) == mask \cap (0..(DwordBits - 1))

\* Process::affinity_mask()
Process_affinity_mask ==
    /\ pc = "idle"
    /\ \E fails \in BOOLEAN :
        LET r == GetProcessAffinityMask(pmask, sysmask, fails) IN
        cur' = [op |-> "process_affinity_mask", arg |-> {}, before |-> pmask,
                ok |-> (r.ret # 0), ret |-> r.process_mask, done |-> TRUE,
                interfered |-> FALSE]
    /\ pop' = IF cur.op = "process_set_affinity_mask" THEN pop ELSE NoPop
    /\ UNCHANGED <<sysmask, pmask, tmask, pc, saved>>
    /\ UNCHANGED notAff

\* Process::set_affinity_mask(mask: u32), for a caller's machine-word mask.
Process_set_affinity_mask ==
    /\ pc = "idle"
    /\ \E mask \in MaskFamily, fails \in BOOLEAN :
        LET r == SetProcessAffinityMask(AsU32(mask), pmask, sysmask, fails) IN
        /\ pmask' = r.pmask
        /\ tmask' = IF r.ret # 0 THEN ThreadMaskUnder(tmask, r.pmask) ELSE tmask
        /\ cur' = [op |-> "process_set_affinity_mask", arg |-> mask,
                   before |-> pmask, ok |-> (r.ret # 0), ret |-> {},
                   done |-> TRUE, interfered |-> FALSE]
        /\ pop' = [set |-> TRUE, arg |-> mask, ok |-> (r.ret # 0),
                   before |-> pmask]
    /\ UNCHANGED <<sysmask, pc, saved>>
    /\ UNCHANGED notAff

\* Another actor gives the process a new affinity mask between the two calls
\* of Thread::affinity_mask (at any other time it only makes another of the
\* initial states).
ExternalChange ==
    /\ pc = "restore"
    /\ \E mask \in MaskFamily :
        /\ mask # {} /\ mask \subseteq sysmask /\ mask # pmask
        /\ pmask' = mask
        /\ tmask' = ThreadMaskUnder(tmask, mask)
    /\ cur' = [cur EXCEPT !.interfered = TRUE]
    /\ pop' = NoPop
    /\ UNCHANGED <<sysmask, pc, saved>>
    /\ UNCHANGED notAff

NextAffinity ==
    \/ Thread_affinity_mask
    \/ AffinityMaskSecond
    \/ Thread_set_affinity_mask
    \/ Thread_set_affinity
    \/ Process_affinity_mask
    \/ Process_set_affinity_mask
    \/ ExternalChange

SpecAffinity == InitAffinity /\ [][NextAffinity]_vars

\* ==== ModuleEntry::from(MODULEENTRY32W) ===========================================
ModuleNameLen == 256   \* szModule: [WCHAR; MAX_MODULE_NAME32 + 1]
MaxPathLen == 260      \* szExePath: [WCHAR; MAX_PATH]
Terminator == 0
Letter == 97           \* a unit that is a character: 'a'
LoneSurrogate == 55296 \* 0xD800 with no low surrogate after it
Replacement == 65533   \* U+FFFD

\* A buffer of w units: k units of fill, a terminator, the rest tail; no
\* terminator at all when k = w and fill is not the terminator.
Buffer(w, k, fill, tail) ==
    [i \in 1..w |-> IF i <= k THEN fill ELSE IF i = k + 1 THEN Terminator
                    ELSE tail]
Buffers(w) ==
    { Buffer(w, k, fill, tail) :
        k \in {0, 1, 2, w - 1, w}, fill \in {Letter, LoneSurrogate},
        tail \in {Terminator, Letter} }

\* iter().position(|&b| b == 0): the 0-based index of the first terminator.
Position(buf) ==
    IF \E i \in 1..Len(buf) : buf[i] = Terminator
    THEN [some |-> TRUE,
          index |-> (CHOOSE i \in 1..Len(buf) :
                        /\ buf[i] = Terminator
                        /\ \A j \in 1..(i - 1) : buf[j] # Terminator) - 1]
    ELSE [some |-> FALSE, index |-> 0]

\* OsString::from_wide(..).to_string_lossy(): a unit that is no character
\* becomes U+FFFD.
ToStringLossy(units) ==
    [i \in 1..Len(units) |->
        IF units[i] = LoneSurrogate THEN Replacement ELSE units[i]]

\* Path::new(&OsString::from_wide(..)): the units as they are.
ToPath(units) == units

\* impl From<MODULEENTRY32W> for ModuleEntry
ModuleEntry_from(me) ==
    LET n == Position(me.szModule)
        name_end == IF n.some THEN n.index ELSE Len(me.szModule)
        q == Position(me.szExePath)
        path_end == IF q.some THEN q.index ELSE Len(me.szModule)
    IN [ok |-> path_end <= Len(me.szExePath),
        name |-> ToStringLossy(SubSeq(me.szModule, 1, name_end)),
        path |-> ToPath(SubSeq(me.szExePath, 1, path_end)),
        process_id |-> me.th32ProcessID]

InitEntry ==
    /\ EnumIdle /\ AffIdle /\ MlIdle /\ AccIdle
    /\ raw \in [th32ProcessID : Pids, szModule : Buffers(ModuleNameLen),
                szExePath : Buffers(MaxPathLen)]
    /\ entry = <<>>

\* entry.into()
Convert ==
    /\ entry = <<>>
    /\ entry' = ModuleEntry_from(raw)
    /\ UNCHANGED raw
    /\ UNCHANGED notEnt

NextEntry == Convert

SpecEntry == InitEntry /\ [][NextEntry]_vars

\* ==== Process::module_list =========================================================
HandleSize == 8        \* mem::size_of::<HMODULE>() on a 64-bit host

\* The handle of the i-th module loaded in the process; 0 is a zeroed slot.
ModuleHandle(i) == 1000 + i

\* EnumProcessModulesEx(process, buf, cb, &needed, LIST_MODULES_ALL): 0 when it
\* fails; else the bytes all handles need, and as many handles as fit in cb
\* bytes stored from the start of buf.
EnumProcessModulesEx(buf, cb, count, fails) ==
    IF fails THEN [res |-> 0, buf |-> buf, needed |-> 0, filled |-> 0]
    ELSE LET fit == IF count <= cb \div HandleSize THEN count
                    ELSE cb \div HandleSize
         IN [res |-> 1,
             buf |-> [i \in 1..Len(buf) |->
                         IF i <= fit THEN ModuleHandle(i) ELSE buf[i]],
             needed |-> count * HandleSize,
             filled |-> fit]

\* Vec::resize(n, zeroed)
Resize(v, n) == [i \in 1..n |-> IF i <= Len(v) THEN v[i] ELSE 0]

InitModList ==
    /\ EnumIdle /\ AffIdle /\ EntIdle /\ AccIdle
    /\ loaded \in 0..MaxLoaded
    /\ mod_handles = <<>>
    /\ reserved = 0
    /\ needed = 0
    /\ mlpc = "idle"
    /\ mlret = <<>>
    /\ mlcall = <<>>

\* module_list() is entered: its locals.
ModuleListEnter ==
    /\ mlpc = "idle"
    /\ mod_handles' = <<>>
    /\ reserved' = 0
    /\ needed' = 0
    /\ mlpc' = "loop"
    /\ UNCHANGED <<loaded, mlret, mlcall>>
    /\ UNCHANGED notMl

\* One turn of its loop: enum_mods(..)?, then break or grow; after the break
\* the Modules are made of mod_handles[..needed / size_of::<HMODULE>()].
ModuleListTurn ==
    /\ mlpc = "loop"
    /\ \E fails \in BOOLEAN :
        LET cb == Len(mod_handles) * HandleSize
            r == EnumProcessModulesEx(mod_handles, cb, loaded, fails)
            n == r.needed \div HandleSize
            call == [cap |-> cb, needed |-> r.needed, filled |-> r.filled,
                     grown |-> -1]
        IN IF r.res = 0
           THEN /\ mlret' = [kind |-> "Err", modules |-> <<>>]
                /\ mlpc' = "done"
                /\ mlcall' = call
                /\ UNCHANGED <<mod_handles, reserved, needed>>
           ELSE IF r.needed <= reserved
           THEN /\ needed' = r.needed
                /\ mod_handles' = r.buf
                /\ mlret' = IF n <= Len(r.buf)
                            THEN [kind |-> "Ok", modules |-> SubSeq(r.buf, 1, n)]
                            ELSE [kind |-> "Panic", modules |-> <<>>]
                /\ mlpc' = "done"
                /\ mlcall' = call
                /\ UNCHANGED reserved
           ELSE /\ needed' = r.needed
                /\ reserved' = r.needed
                /\ mod_handles' = Resize(r.buf, r.needed)
                /\ mlcall' = [call EXCEPT !.grown = r.needed * HandleSize]
                /\ UNCHANGED <<mlret, mlpc>>
    /\ UNCHANGED loaded
    /\ UNCHANGED notMl

\* The process loads or unloads modules between two turns.
ModulesChange ==
    /\ mlpc = "loop"
    /\ \E n \in 0..MaxLoaded : n # loaded /\ loaded' = n
    /\ UNCHANGED <<mod_handles, reserved, needed, mlpc, mlret, mlcall>>
    /\ UNCHANGED notMl

NextModList ==
    \/ ModuleListEnter
    \/ ModuleListTurn
    \/ ModulesChange

SpecModList == InitModList /\ [][NextModList]_vars

\* ==== Process / Thread: constructors and accessors =================================
StillActive == 259     \* the exit status of a process that has not exited
NoSuchPid == MaxPid + 1    \* an id no process or thread has

\* A module name as its units: two names free of terminators, one with a
\* terminator embedded.
LoadedNames == {<<Letter>>, <<Letter, Letter>>}
ModuleNames == LoadedNames \cup {<<Letter, Terminator, Letter>>}

\* ---- the OS -------------------------------------------------------------------
\* The handle OpenProcess / OpenThread gives for an object it can open: a
\* non-zero multiple of 4.
KernelHandle(id) == 4 * id

\* GetCurrentProcess: the pseudo-handle of the calling process, (HANDLE)-1.
GetCurrentProcess == -1

\* GetExitCodeProcess: 0 and *status untouched when the handle lacks the query
\* right; else non-zero and the exit status, STILL_ACTIVE while it runs.
GetExitCodeProcess(p, status, exit) ==
    IF p.idOk THEN [ret |-> 1, status |-> exit]
    ELSE [ret |-> 0, status |-> status]

\* GetThreadId: the id, or 0 when the query fails.
GetThreadId(t) == IF t.idOk THEN t.pid ELSE 0

\* The HMODULE of a module loaded in a process: its base address there.
ModuleBase(pid, name) == 65536 * pid + Len(name)

\* GetModuleHandleW(name): the module of that name loaded in the calling
\* process, or null.
GetModuleHandleW(name, mods) ==
    IF name \in mods[CurrentPid] THEN ModuleBase(CurrentPid, name) ELSE Null

\* ---- Handle -------------------------------------------------------------------
\* Handle::new(raw) / Handle::from_raw_handle(raw): the Handle holds raw.
Handle_new(rawh) == rawh
Handle_from_raw_handle(rawh) == rawh

\* ---- Process, Thread ----------------------------------------------------------
\* is_running(): status starts 0, the result of GetExitCodeProcess is not
\* looked at.
Process_is_running(p, exit) ==
    LET r == GetExitCodeProcess(p, 0, exit) IN r.status = StillActive

Thread_id(t) == GetThreadId(t)

\* WideCString::from_str(name): Err with the position of a terminator in it.
WideCString_from_str(name) ==
    LET n == Position(name) IN
    IF n.some THEN [ok |-> FALSE, pos |-> n.index] ELSE [ok |-> TRUE, pos |-> 0]

\* p.module(name)
Process_module(p, name, mods) ==
    LET n == WideCString_from_str(name) IN
    IF ~n.ok THEN [kind |-> "NulErrorW", handle |-> Null, process |-> 0]
    ELSE LET ret == GetModuleHandleW(name, mods) IN
         IF ret = Null THEN [kind |-> "Err", handle |-> Null, process |-> 0]
         ELSE [kind |-> "Ok", handle |-> ret, process |-> p.pid]

InitAccess ==
    /\ EnumIdle /\ AffIdle /\ EntIdle /\ MlIdle
    /\ proc = NoHeld
    /\ thr = NoHeld
    /\ res = NoRes

\* ---- the constructors -----------------------------------------------------------
\* Process::from_id(id) / Process::from_id_with_access(id, access); query says
\* whether the access asked for has a query right (PROCESS_ALL_ACCESS has).
Process_from_id ==
    /\ ~proc.live
    /\ \E id \in Pids \cup {NoSuchPid}, query \in BOOLEAN :
        LET r == Process_from_id_with_access(id, Pids)
            handle == IF r.ok THEN KernelHandle(id) ELSE Null
        IN IF handle = Null
           THEN /\ res' = [op |-> "from_id", osfail |-> TRUE, kind |-> "Err",
                           value |-> 0, arg |-> id]
                /\ UNCHANGED proc
           ELSE /\ res' = [op |-> "from_id", osfail |-> FALSE, kind |-> "Ok",
                           value |-> id, arg |-> id]
                /\ proc' = [live |-> TRUE, origin |-> "from_id", pid |-> id,
                            raw |-> Handle_new(handle), idOk |-> query]
    /\ UNCHANGED thr
    /\ UNCHANGED notAcc

\* Process::current()
Process_current ==
    /\ ~proc.live
    /\ proc' = [live |-> TRUE, origin |-> "current", pid |-> CurrentPid,
                raw |-> Handle_from_raw_handle(GetCurrentProcess),
                idOk |-> TRUE]
    /\ res' = [op |-> "current", osfail |-> FALSE, kind |-> "Ok",
               value |-> CurrentPid, arg |-> 0]
    /\ UNCHANGED thr
    /\ UNCHANGED notAcc

\* Thread::from_id(id): THREAD_ALL_ACCESS is asked for.
Thread_open ==
    /\ ~thr.live
    /\ \E id \in Pids \cup {NoSuchPid} :
        LET r == Thread_from_id(id, Pids)
            handle == IF r.ok THEN KernelHandle(id) ELSE Null
        IN IF handle = Null
           THEN /\ res' = [op |-> "thread_from_id", osfail |-> TRUE,
                           kind |-> "Err", value |-> 0, arg |-> id]
                /\ UNCHANGED thr
           ELSE /\ res' = [op |-> "thread_from_id", osfail |-> FALSE,
                           kind |-> "Ok", value |-> id, arg |-> id]
                /\ thr' = [live |-> TRUE, origin |-> "from_id", pid |-> id,
                           raw |-> Handle_new(handle), idOk |-> TRUE]
    /\ UNCHANGED proc
    /\ UNCHANGED notAcc

\* Thread::from_raw_handle(handle), for a thread handle the caller opened
\* with the rights of its choice.
Thread_from_raw_handle ==
    /\ ~thr.live
    /\ \E id \in Pids, query \in BOOLEAN :
        /\ thr' = [live |-> TRUE, origin |-> "from_raw_handle", pid |-> id,
                   raw |-> Handle_new(KernelHandle(id)), idOk |-> query]
        /\ res' = [op |-> "thread_from_raw_handle", osfail |-> FALSE,
                   kind |-> "Ok", value |-> id, arg |-> id]
    /\ UNCHANGED proc
    /\ UNCHANGED notAcc

\* ---- the accessors --------------------------------------------------------------
\* p.id()
Call_id ==
    /\ proc.live
    /\ res' = [op |-> "id", osfail |-> ~proc.idOk, kind |-> "Value",
               value |-> Process_id(proc), arg |-> proc.pid]
    /\ UNCHANGED <<proc, thr>>
    /\ UNCHANGED notAcc

\* p.is_running(), for a process that runs or has exited with status 0.
Call_is_running ==
    /\ proc.live
    /\ \E exit \in {StillActive, 0} :
        res' = [op |-> "is_running", osfail |-> ~proc.idOk, kind |-> "Value",
                value |-> Process_is_running(proc, exit), arg |-> exit]
    /\ UNCHANGED <<proc, thr>>
    /\ UNCHANGED notAcc

\* t.id()
Call_thread_id ==
    /\ thr.live
    /\ res' = [op |-> "thread_id", osfail |-> ~thr.idOk, kind |-> "Value",
               value |-> Thread_id(thr), arg |-> thr.pid]
    /\ UNCHANGED <<proc, thr>>
    /\ UNCHANGED notAcc

\* p.path()
Call_path ==
    /\ proc.live
    /\ \E img \in Images :
        LET r == Process_path(img) IN
        res' = [op |-> "path", osfail |-> (img = <<>>),
                kind |-> IF r.ok THEN "Ok" ELSE "Err", value |-> r.path,
                arg |-> img]
    /\ UNCHANGED <<proc, thr>>
    /\ UNCHANGED notAcc

\* p.name()
Call_name ==
    /\ proc.live
    /\ \E img \in Images :
        LET r == Process_name(img) IN
        res' = [op |-> "name", osfail |-> (img = <<>>), kind |-> r.kind,
                value |-> r.name, arg |-> img]
    /\ UNCHANGED <<proc, thr>>
    /\ UNCHANGED notAcc

\* p.module(name), with mods the modules loaded in each process.
Call_module ==
    /\ proc.live
    /\ \E name \in ModuleNames, mods \in [Pids -> SUBSET LoadedNames] :
        LET r == Process_module(proc, name, mods) IN
        res' = [op |-> "module",
                osfail |-> (WideCString_from_str(name).ok
                            /\ GetModuleHandleW(name, mods) = Null),
                kind |-> r.kind, value |-> r,
                arg |-> [name |-> name, mods |-> mods]]
    /\ UNCHANGED <<proc, thr>>
    /\ UNCHANGED notAcc

\* The Process and the Thread go out of scope.
DropHeld ==
    /\ proc.live \/ thr.live
    /\ proc' = NoHeld
    /\ thr' = NoHeld
    /\ res' = NoRes
    /\ UNCHANGED notAcc

NextAccess ==
    \/ Process_from_id
    \/ Process_current
    \/ Thread_open
    \/ Thread_from_raw_handle
    \/ Call_id
    \/ Call_is_running
    \/ Call_thread_id
    \/ Call_path
    \/ Call_name
    \/ Call_module
    \/ DropHeld

SpecAccess == InitAccess /\ [][NextAccess]_vars

\* ---- claims: the snapshot sequences ---------------------------------------------
\* The ids of the entries of s, in order.
Ids(s) == [i \in 1..Len(s) |-> s[i].id]

\* The entries of a log whose open succeeded, as ids, in order.
RECURSIVE Opened(_)
Opened(l) ==
    IF l = <<>> THEN <<>>
    ELSE (IF l[1].ok THEN <<l[1].id>> ELSE <<>>) \o Opened(Tail(l))

ManualProcessSeq ==
    kind = "process" /\ seq \in {"live", "dropped"} /\ fn.kind = "none"

\* C1: the sequence of Process::all() / all_with_access visits the snapshot's
\* entries in snapshot order starting with the first entry, yields exactly the
\* entries whose open succeeded, passes over the others without ending, and
\* is non-empty whenever some entry can be opened.
C1_AllYieldsOpenedEntriesFromFirst ==
    ManualProcessSeq =>
        /\ Len(log) <= Len(snap)
        /\ Ids(log) = Ids(SubSeq(snap, 1, Len(log)))
        /\ Ids(yielded) = Opened(log)
        /\ ended => Len(log) = Len(snap)
        /\ (ended /\ \E i \in 1..Len(snap) : snap[i].id \in openable)
               => yielded # <<>>

\* Process::all() run to its end over a snapshot whose first entry could not
\* be opened and a later one could: the sequence went on and yielded it.
C1_Witness ==
    /\ ManualProcessSeq
    /\ ended
    /\ Len(log) >= 2
    /\ ~log[1].ok
    /\ yielded # <<>>

\* The sequence Process::all() gives when run to its end from cursor c0.
Enumeration(s, c0, can) ==
    LET T(e) == e.id \in can IN Ids(SelectSeq(SubSeq(s, c0 + 1, Len(s)), T))

HasName(pid, name) ==
    /\ image[pid] # <<>>
    /\ image[pid][Len(image[pid])] = name

\* C2: when from_name returns, it returns the first process of the
\* enumeration whose executable name is exactly the name asked for, NoProcess
\* exactly when the enumeration holds no such process, and the OS error
\* exactly when the snapshot could not be opened.
C2_FromNameFirstMatch ==
    fn.kind \in {"Ok", "NoProcess", "OsError"} =>
        LET E == Enumeration(snap, fn.start, openable) IN
        /\ fn.kind = "OsError" <=> seq = "failed"
        /\ fn.kind = "NoProcess" <=>
               (seq # "failed" /\ \A i \in 1..Len(E) : ~HasName(E[i], fn.name))
        /\ fn.kind = "Ok" =>
               \E i \in 1..Len(E) :
                   /\ E[i] = fn.pid
                   /\ HasName(E[i], fn.name)
                   /\ \A j \in 1..(i - 1) : ~HasName(E[j], fn.name)

\* from_name returned the third process of its enumeration: the first two
\* were yielded and did not match, one under the other spelling of the name.
C2_Witness ==
    /\ fn.kind = "Ok"
    /\ Len(fn.dropped) = 2
    /\ \E i \in 1..Len(fn.dropped) :
           image[fn.dropped[i]] # <<>> /\ ~HasName(fn.dropped[i], fn.name)

\* C3: the snapshot handle of a sequence is open exactly while the sequence
\* is alive and has been released exactly once when the sequence is gone,
\* however far the sequence was advanced; a constructor that failed holds no
\* handle.
C3_SnapshotReleasedOnceAtDrop ==
    /\ seq = "live" => (hstate = "open" /\ closes = 0)
    /\ seq = "dropped" => (hstate = "closed" /\ closes = 1)
    /\ seq \in {"none", "failed"} => (hstate = "none" /\ closes = 0)

\* A threads() sequence dropped part-way: it yielded a thread, entries of
\* the snapshot were left unvisited, and it never returned None.
C3_Witness ==
    /\ kind = "threads"
    /\ seq = "dropped"
    /\ Len(yielded) = 1
    /\ cursor < Len(snap)
    /\ ~ended
    /\ closes = 1

C5_ModuleEntriesOfReceiver ==
    (kind = "module_entries" /\ seq \in {"live", "dropped"}) =>
        /\ \A i \in 1..Len(yielded) : yielded[i].owner = Process_id(recv)
        /\ (ended /\ nmods[recv.pid] >= 1) => yielded # <<>>

\* ---- claims: affinity ---------------------------------------------------------------
\* C6: when Thread::affinity_mask() succeeds and nobody changed an affinity
\* mask meanwhile, it returns the mask the thread had right before the call.
C6_AffinityMaskReturnsCurrentMask ==
    (cur.op = "affinity_mask" /\ cur.done /\ cur.ok /\ ~cur.interfered)
        => cur.ret = cur.before

\* What it does return then: the mask its own first call installed.
AffinityMaskReturnsAllBits ==
    (cur.op = "affinity_mask" /\ cur.done /\ cur.ok /\ ~cur.interfered)
        => (cur.ret = AllBits /\ tmask = cur.before)

\* C7: Process::set_affinity_mask(mask) that succeeded, followed immediately by
\* affinity_mask(), gives mask back, for every machine-word mask that is a
\* non-empty subset of the system mask; for a mask with a bit outside the
\* system mask set_affinity_mask fails and leaves the process mask as it was.
C7_ProcessSetThenGetRoundTrip ==
    /\ (/\ cur.op = "process_affinity_mask" /\ cur.ok
        /\ pop.set /\ pop.ok
        /\ pop.arg # {} /\ pop.arg \subseteq sysmask)
           => cur.ret = pop.arg
    /\ (cur.op = "process_set_affinity_mask" /\ ~(cur.arg \subseteq sysmask))
           => (~cur.ok /\ pmask = cur.before)

\* The same for the masks a u32 holds.
ProcessSetThenGetRoundTrip32 ==
    /\ (/\ cur.op = "process_affinity_mask" /\ cur.ok
        /\ pop.set /\ pop.ok
        /\ pop.arg \subseteq 0..(DwordBits - 1))
           => cur.ret = pop.arg
    /\ (/\ cur.op = "process_set_affinity_mask"
        /\ cur.arg \subseteq 0..(DwordBits - 1)
        /\ ~(cur.arg \subseteq sysmask))
           => (~cur.ok /\ pmask = cur.before)

\* C8: during and after Thread::set_affinity(p) with p at or above the word
\* width the thread has the mask it had before the call, and the call returns
\* that mask.
C8_SetAffinityOutOfRangeChangesNothing ==
    (/\ cur.op = "set_affinity"
     /\ \A b \in cur.arg : b >= WordBits
     /\ ~cur.interfered)
        => /\ tmask = cur.before
           /\ (cur.done /\ cur.ok) => cur.ret = cur.before

\* ---- claims: ModuleEntry::from ------------------------------------------------------
\* The units of buf before its first terminator, all of buf when it has none.
BeforeTerminator(buf) ==
    IF \A i \in 1..Len(buf) : buf[i] # Terminator THEN buf
    ELSE LET k == CHOOSE i \in 1..Len(buf) :
                     /\ buf[i] = Terminator
                     /\ \A j \in 1..(i - 1) : buf[j] # Terminator
         IN [i \in 1..(k - 1) |-> buf[i]]

AsText(units) ==
    [i \in 1..Len(units) |->
        IF units[i] = LoneSurrogate THEN Replacement ELSE units[i]]

\* C9: the conversion never fails, and name and path are the content of their
\* buffers before the first terminator: empty when the buffer starts with the
\* terminator, the whole buffer when it holds none.
C9_EntryTextIsBufferBeforeTerminator ==
    entry # <<>> =>
        /\ entry.ok
        /\ entry.name = AsText(BeforeTerminator(raw.szModule))
        /\ entry.path = BeforeTerminator(raw.szExePath)

\* The same for a path buffer that holds a terminator.
EntryTextOfTerminatedPath ==
    (entry # <<>> /\ \E i \in 1..MaxPathLen : raw.szExePath[i] = Terminator) =>
        /\ entry.ok
        /\ entry.name = AsText(BeforeTerminator(raw.szModule))
        /\ entry.path = BeforeTerminator(raw.szExePath)

\* ---- claims: module_list ------------------------------------------------------------
\* C10: module_list leaves its loop only after a call whose needed bytes fit
\* the buffer handed to that call, grows the buffer to exactly the needed
\* bytes before a retry, returns one Module per slot the last call filled
\* and none made of an unfilled slot, and returns Err when a call fails.
C10_ModuleListSizedExactly ==
    /\ (mlpc = "done" /\ mlret.kind # "Err") =>
           /\ mlret.kind = "Ok"
           /\ mlcall.needed <= mlcall.cap
           /\ Len(mlret.modules) = mlcall.filled
           /\ Len(mlret.modules) = mlcall.needed \div HandleSize
           /\ \A i \in 1..Len(mlret.modules) :
                  mlret.modules[i] = ModuleHandle(i)
    /\ (mlcall # <<>> /\ mlcall.grown # -1) => mlcall.grown = mlcall.needed
    /\ (mlpc = "done" /\ mlret.kind = "Err") => mlcall.filled = 0

\* C10 without the exact size: the buffer grows to needed elements, which is
\* HandleSize times the needed bytes.
ModuleListSized ==
    /\ (mlpc = "done" /\ mlret.kind # "Err") =>
           /\ mlret.kind = "Ok"
           /\ mlcall.needed <= mlcall.cap
           /\ Len(mlret.modules) = mlcall.filled
           /\ Len(mlret.modules) = mlcall.needed \div HandleSize
           /\ \A i \in 1..Len(mlret.modules) :
                  mlret.modules[i] = ModuleHandle(i)
    /\ (mlcall # <<>> /\ mlcall.grown # -1) =>
           mlcall.grown = mlcall.needed * HandleSize

\* ---- claims: constructors and accessors -------------------------------------------
\* C11: whenever the OS call underlying a Process or Thread operation fails,
\* the operation gives its caller an error result, id(), is_running() and
\* Thread::id() included.
C11_OsFailureIsReported ==
    res.osfail => res.kind = "Err"

\* What holds instead: the operations whose return type is a result report
\* the failure; id(), is_running() and Thread::id() return 0, false and 0.
OsFailureReportedByResultTypes ==
    res.osfail =>
        \/ res.kind = "Err"
        \/ /\ res.op \in {"id", "thread_id"}
           /\ res.kind = "Value" /\ res.value = 0
        \/ /\ res.op = "is_running"
           /\ res.kind = "Value" /\ res.value = FALSE

\* The last component of an image path is a file name.
EndsInFileName(img) == img # <<>> /\ img[Len(img)] # ".."

\* C12: name() returns an error result, and does not abort the program, both
\* when the image-path query fails and when the path has no filename
\* component; it returns the filename component otherwise.
C12_NameFailsWithErrorResult ==
    res.op = "name" =>
        IF EndsInFileName(res.arg)
        THEN res.kind = "Ok" /\ res.value = res.arg[Len(res.arg)]
        ELSE res.kind = "Err"

\* What holds instead: a failed query gives an error result and a path with
\* a filename gives the filename; on a path without one, name() panics.
NameOfPathWithoutFileNamePanics ==
    res.op = "name" =>
        /\ res.arg = <<>> => res.kind = "Err"
        /\ EndsInFileName(res.arg) =>
             res.kind = "Ok" /\ res.value = res.arg[Len(res.arg)]
        /\ (res.arg # <<>> /\ ~EndsInFileName(res.arg)) => res.kind = "Panic"

\* A raw handle value that is neither null nor the invalid-handle sentinel.
ValidRaw(rawh) == rawh # Null /\ rawh # InvalidHandleValue

\* C13: every live Handle made by a constructor of Process or Thread holds a
\* raw value that is neither null nor INVALID_HANDLE_VALUE, the handle
\* Process::current() wraps included.
C13_LiveHandlesAreValid ==
    /\ (proc.live /\ proc.origin \in {"from_id", "current"}) =>
          ValidRaw(proc.raw)
    /\ (thr.live /\ thr.origin = "from_id") => ValidRaw(thr.raw)

\* What holds instead: the handles from_id and Thread::from_id open are
\* valid; the one current() wraps holds the value of the sentinel.
LiveHandlesAreValidButCurrent ==
    /\ (proc.live /\ proc.origin = "from_id") => ValidRaw(proc.raw)
    /\ (thr.live /\ thr.origin = "from_id") => ValidRaw(thr.raw)
    /\ (proc.live /\ proc.origin = "current") =>
          proc.raw = InvalidHandleValue

\* module(name) was called with a name free of terminators and gave what it
\* would for the modules of process pid.
ModuleResolvedIn(pid) ==
    (res.op = "module" /\ \A i \in 1..Len(res.arg.name) :
                              res.arg.name[i] # Terminator) =>
        LET isLoaded == res.arg.name \in res.arg.mods[pid] IN
        /\ res.kind = "Ok" =>
              /\ isLoaded
              /\ res.value.handle = ModuleBase(pid, res.arg.name)
        /\ ~isLoaded => res.kind = "Err"

\* C14: for every Process p, p.module(name) succeeds only if a module of that
\* name is loaded in p, the Module then holding that module's handle in p, and
\* fails with an OS error when none is loaded in p.
C14_ModuleIsResolvedInReceiver == ModuleResolvedIn(proc.pid)

\* What holds instead: the name is looked up in the calling process.
ModuleIsResolvedInCaller == ModuleResolvedIn(CurrentPid)

\* ---- claims: thread ids, OS calls, from_name ----------------------------------------
\* The entries of s that process id pid owns, in order.
OwnedBy(s, pid) == LET T(e) == e.owner = pid IN SelectSeq(s, T)

\* The ids p.thread_ids() yields when run to its end over snapshot s.
RECURSIVE RunThreadIds(_, _, _)
RunThreadIds(s, c, p) ==
    LET r == ThreadIdIter_next(s, c, p, 0) IN
    IF ~r.some THEN <<>>
    ELSE <<r.entry.id>> \o RunThreadIds(s, r.cursor, p)

\* C15: p.thread_ids() yields, in snapshot order, the thread id of every
\* entry whose owner equals p.id() and of no other, and opens no thread; the
\* ids of the threads p.threads() yields over the same snapshot are those ids
\* less the ones whose open failed.
C15_ThreadIdsAndThreadsAgree ==
    /\ (kind = "thread_ids" /\ seq \in {"live", "dropped"}) =>
          /\ yielded = OwnedBy(SubSeq(snap, 1, cursor), Process_id(recv))
          /\ ended => cursor = Len(snap)
          /\ log = <<>>
    /\ (kind = "threads" /\ seq \in {"live", "dropped"}) =>
          /\ Ids(log) = RunThreadIds(SubSeq(snap, 1, cursor), 0, recv)
          /\ Ids(yielded) = Opened(log)
          /\ ended => cursor = Len(snap)

\* p.thread_ids() run to its end: it yielded two ids and passed over an
\* entry of another process.
C15_Witness ==
    /\ kind = "thread_ids" /\ ended
    /\ Len(yielded) = 2
    /\ Len(snap) = 3

\* C16: every advance of a snapshot sequence performs exactly one OS call.
\* (calls is 0 as long as no advance was made.)
C16_OneOsCallPerAdvance == calls \in {0, 1}

\* A step that is one call of next() on the sequence.
IsAdvance == seq = "live" /\ seq' = "live" /\ openable' = openable

\* C16 as amended: an advance makes one Next call for every entry it passes
\* and one more when it finds the end; with it one open for every process
\* entry, one owner query for every thread entry and one open for every
\* thread entry of p; it gives end-of-sequence or one record, whose open
\* succeeded, and a failed open is passed over within the advance. Only the
\* advance of a module-entry sequence makes exactly one OS call.
AdvanceCallsPerEntryPassed ==
    [][IsAdvance =>
        LET passed == cursor' - cursor
            nexts == passed + (IF ended' THEN 1 ELSE 0)
            opens == Len(log') - Len(log)
        IN /\ \/ ended' /\ yielded' = yielded
              \/ ~ended' /\ Len(yielded') = Len(yielded) + 1 /\ passed >= 1
           /\ kind = "process" =>
                 /\ calls' = nexts + opens /\ opens = passed
                 /\ Ids(yielded') = Opened(log')
           /\ kind = "threads" =>
                 /\ calls' = nexts + passed + opens
                 /\ opens = Len(OwnedBy(SubSeq(snap, cursor + 1, cursor'),
                                        Process_id(recv)))
                 /\ Ids(yielded') = Opened(log')
           /\ kind = "thread_ids" => calls' = nexts + passed /\ opens = 0
           /\ kind = "module_entries" => calls' = 1 /\ opens = 0
      ]_vars

\* An advance of p.threads() that passed an entry of another process and an
\* entry of p whose open failed before it yielded a thread: 8 OS calls.
C16_Witness ==
    /\ kind = "threads" /\ seq = "live"
    /\ Len(yielded) = 1 /\ cursor = 3
    /\ calls = 8

\* ---- claims: errors of Thread::affinity_mask ----------------------------------------
\* Thread::affinity_mask() has returned an error.
AffinityMaskFailed == cur.op = "affinity_mask" /\ cur.done /\ ~cur.ok

\* C17: when Thread::affinity_mask() returns an error, by its first or its
\* second OS call, also with the process mask changed between the two, the
\* thread's affinity mask is the one it had before the call.
C17_AffinityMaskErrorRestoresMask ==
    AffinityMaskFailed => tmask = cur.before

\* What holds instead: after an error nobody interfered with, the mask is
\* the one before the call (the first OS call failed) or all bits (the
\* second did).
AffinityMaskErrorLeavesMaskOrAllBits ==
    (AffinityMaskFailed /\ ~cur.interfered) => tmask \in {cur.before, AllBits}

\* ---- claims: the handles of from_name -----------------------------------------------
\* C18: when from_name returns, every process handle it opened has been
\* released exactly once except the one of the process returned, the snapshot
\* handle has been released, and no entry after the first match was opened.
C18_FromNameReleasesWhatItOpened ==
    /\ fn.kind = "OsError" => (hstate = "none" /\ closes = 0 /\ log = <<>>)
    /\ fn.kind \in {"Ok", "NoProcess"} =>
        /\ hstate = "closed" /\ closes = 1
        /\ Ids(log) = Ids(SubSeq(snap, 1, Len(log)))
        /\ \A id \in 1..Len(snap) :
              LET wasOpened == \E i \in 1..Len(log) : log[i].id = id /\ log[i].ok
                  h == fn.handles[id]
              IN IF ~wasOpened THEN h.state = "none" /\ h.closes = 0
                 ELSE IF fn.kind = "Ok" /\ fn.pid = id
                 THEN h.state = "open" /\ h.closes = 0
                 ELSE h.state = "closed" /\ h.closes = 1
        /\ fn.kind = "Ok" =>
              /\ log[Len(log)].id = fn.pid
              /\ HasName(fn.pid, fn.name)
              /\ \A i \in 1..(Len(log) - 1) :
                    log[i].ok => ~HasName(log[i].id, fn.name)
        /\ fn.kind = "NoProcess" => Len(log) = Len(snap)

\* from_name returned the second entry of a snapshot of three: the first was
\* opened, did not match and was released; the third was never opened.
C18_Witness ==
    /\ fn.kind = "Ok"
    /\ Len(snap) = 3 /\ Len(log) = 2
    /\ fn.handles[1] = [state |-> "closed", closes |-> 1]
    /\ fn.handles[2] = [state |-> "open", closes |-> 0]
    /\ fn.handles[3] = [state |-> "none", closes |-> 0]
====
